---- MODULE Spec2Model ----
(***************************************************************************)
(* Model of the TMV7.1 tank monitor firmware (tmv7/tmv7.ino): the sensor   *)
(* snapshot engine, the uptime/epoch transition stamps with their          *)
(* backfill, the update manifest parser and the check/install handlers.    *)
(***************************************************************************)
EXTENDS Integers, Sequences, FiniteSets, TLC

(***************************************************************************)
(* Program constants.                                                      *)
(***************************************************************************)
FW_VERSION_CODE == 2026022303
MIN_VALID_EPOCH == 1704067200
SENSOR_POLL_MS == 1500
CLOCK_RESYNC_MS == 21600000
CLOCK_RETRY_MS == 60000
HTTP_CODE_OK == 200
SENSOR_INVERTED == <<FALSE, FALSE, FALSE, FALSE>>
HIGH == 1
LOW == 0

Channels == 0 .. 3

(***************************************************************************)
(* unsigned long is 32 bits wide on the ESP8266.  A value v is held as the *)
(* pair <<v \div 2^16, v % 2^16>> so that every intermediate result stays  *)
(* inside the range of the model checker's integers.                       *)
(***************************************************************************)
Half == 2 ^ 16

U32Of(n) == <<(n \div Half) % Half, n % Half>>

U32Zero == <<0, 0>>

U32Add(a, b) ==
  LET lo == a[2] + b[2]
      hi == a[1] + b[1] + (lo \div Half)
  IN  <<hi % Half, lo % Half>>

\* (unsigned long)(a - b): subtraction modulo 2^32.
U32Sub(a, b) ==
  LET borrow == IF a[2] >= b[2] THEN 0 ELSE 1
      lo == a[2] + borrow * Half - b[2]
      hi == (a[1] + Half - b[1] - borrow) % Half
  IN  <<hi, lo>>

U32Ge(a, b) == a[1] > b[1] \/ (a[1] = b[1] /\ a[2] >= b[2])

\* a / 1000UL, the quotient fits an ordinary integer.
U32Div1000(a) ==
  (a[1] \div 1000) * Half + (((a[1] % 1000) * Half + a[2]) \div 1000)

(***************************************************************************)
(* Arduino String values are sequences of one-character strings.  Indices  *)
(* are 0-based as in the source; At(s, i) is s[i].                         *)
(***************************************************************************)
NL == "\n"
CR == "\r"
SP == " "
TAB == "\t"

Digits == <<"0", "1", "2", "3", "4", "5", "6", "7", "8", "9">>
Upper == <<"A", "B", "C", "D", "E", "F", "G", "H", "I", "J", "K", "L", "M",
           "N", "O", "P", "Q", "R", "S", "T", "U", "V", "W", "X", "Y", "Z">>
Lower == <<"a", "b", "c", "d", "e", "f", "g", "h", "i", "j", "k", "l", "m",
           "n", "o", "p", "q", "r", "s", "t", "u", "v", "w", "x", "y", "z">>

LONG_MAX == 2147483647

At(s, i) == s[i + 1]

IsSpace(c) == c \in {SP, TAB, NL, CR}

IsDigit(c) == \E d \in 1 .. 10 : Digits[d] = c

DigitVal(c) == (CHOOSE d \in 1 .. 10 : Digits[d] = c) - 1

\* String::indexOf(ch, fromIndex)
IndexOf(s, ch, from) ==
  IF from >= Len(s) THEN -1
  ELSE LET hits == {i \in from .. Len(s) - 1 : At(s, i) = ch}
       IN  IF hits = {} THEN -1 ELSE CHOOSE i \in hits : \A j \in hits : i <= j

\* String::substring(left, right)
Substring(s, left, right) ==
  LET l == IF left > right THEN right ELSE left
      r0 == IF left > right THEN left ELSE right
      r == IF r0 > Len(s) THEN Len(s) ELSE r0
  IN  IF l >= Len(s) THEN << >> ELSE SubSeq(s, l + 1, r)

\* String::trim()
Trim(s) ==
  LET keep == {i \in 1 .. Len(s) : ~IsSpace(s[i])}
  IN  IF keep = {} THEN << >>
      ELSE SubSeq(s, CHOOSE i \in keep : \A j \in keep : i <= j,
                     CHOOSE i \in keep : \A j \in keep : i >= j)

\* String::startsWith(prefix)
StartsWith(s, prefix) ==
  /\ Len(s) >= Len(prefix)
  /\ SubSeq(s, 1, Len(prefix)) = prefix

LowerChar(c) ==
  IF \E k \in 1 .. 26 : Upper[k] = c
    THEN Lower[CHOOSE k \in 1 .. 26 : Upper[k] = c]
    ELSE c

\* The key compared as it was written.
KeepCase(s) == s

\* String::toLowerCase()
ToLowerCase(s) == [i \in 1 .. Len(s) |-> LowerChar(s[i])]

\* The digits of atol(): accumulate while the next character is a digit,
\* saturating at LONG_MAX as strtol does.
RECURSIVE AtolDigits(_, _, _)
AtolDigits(s, i, acc) ==
  IF i > Len(s) \/ ~IsDigit(s[i]) THEN acc
  ELSE LET d == DigitVal(s[i])
       IN  AtolDigits(s, i + 1,
                      IF acc > (LONG_MAX - d) \div 10 THEN LONG_MAX
                      ELSE acc * 10 + d)

\* String::toInt(), which is atol() of the buffer: leading white space, an
\* optional sign, then digits up to the first character that is not one.
ToInt(s) ==
  LET ns == {i \in 1 .. Len(s) : ~IsSpace(s[i])}
      b == IF ns = {} THEN Len(s) + 1 ELSE CHOOSE i \in ns : \A j \in ns : i <= j
      signed == b <= Len(s) /\ s[b] \in {"-", "+"}
      mag == AtolDigits(s, IF signed THEN b + 1 ELSE b, 0)
  IN  IF signed /\ s[b] = "-" THEN 0 - mag ELSE mag

\* String(long): the decimal digits, with a leading '-' when negative.
RECURSIVE NatToString(_)
NatToString(n) ==
  IF n < 10 THEN <<Digits[n + 1]>>
  ELSE NatToString(n \div 10) \o <<Digits[(n % 10) + 1]>>

LongToString(n) == IF n < 0 THEN <<"-">> \o NatToString(0 - n) ELSE NatToString(n)

(***************************************************************************)
(* parseManifest                                                           *)
(***************************************************************************)
KEY_VERSION_CODE == <<"v", "e", "r", "s", "i", "o", "n", "_", "c", "o", "d", "e">>
KEY_VERSION_NAME == <<"v", "e", "r", "s", "i", "o", "n", "_", "n", "a", "m", "e">>
KEY_FIRMWARE_URL == <<"f", "i", "r", "m", "w", "a", "r", "e", "_", "u", "r", "l">>

EmptyManifest == [versionCode |-> 0, versionName |-> << >>, firmwareUrl |-> << >>]

\* One "key=value" line that passed the blank, comment and '=' tests.
StoreKeyValue(out, key, value) ==
  IF key = KEY_VERSION_CODE THEN [out EXCEPT !.versionCode = ToInt(value)]
  ELSE IF key = KEY_VERSION_NAME THEN [out EXCEPT !.versionName = value]
  ELSE IF key = KEY_FIRMWARE_URL THEN [out EXCEPT !.firmwareUrl = value]
  ELSE out

\* The while loop of parseManifest, from position start with out so far.
RECURSIVE ParseLines(_, _, _)
ParseLines(body, start, out) ==
  IF ~(start < Len(body)) THEN out
  ELSE
    LET nl == IndexOf(body, NL, start)
        end == IF nl < 0 THEN Len(body) ELSE nl
        line == Trim(Substring(body, start, end))
        eq == IndexOf(line, "=", 0)
        key == ToLowerCase(Trim(Substring(line, 0, eq)))
        value == Trim(Substring(line, eq + 1, Len(line)))
    IN  IF Len(line) = 0 \/ StartsWith(line, <<"#">>) THEN ParseLines(body, end + 1, out)
        ELSE IF eq <= 0 THEN ParseLines(body, end + 1, out)
        ELSE ParseLines(body, end + 1, StoreKeyValue(out, key, value))

\* A message is the sequence of the pieces it is concatenated from: a
\* literal is one piece, a String built from characters is one piece per
\* character.
ERR_NO_VERSION_CODE == <<"manifest missing valid version_code">>
ERR_NO_FIRMWARE_URL == <<"manifest missing firmware_url">>

\* parseManifest without the default for an empty version_name.
UndefaultedName(out) == out.versionName

\* The name parseManifest leaves in out.versionName on success.
DefaultedName(out) ==
  IF Len(out.versionName) = 0 THEN LongToString(out.versionCode) ELSE out.versionName

\* parseManifest(body, out, error): the out parameter as out, the return
\* value as ok, and the error parameter (passed in empty) as error.
parseManifest(body) ==
  LET out == ParseLines(body, 0, EmptyManifest)
  IN  IF out.versionCode <= 0
        THEN [out |-> out, ok |-> FALSE, error |-> ERR_NO_VERSION_CODE]
      ELSE IF Len(out.firmwareUrl) = 0
        THEN [out |-> out, ok |-> FALSE, error |-> ERR_NO_FIRMWARE_URL]
      ELSE [out |-> [out EXCEPT !.versionName = DefaultedName(out)], ok |-> TRUE,
            error |-> << >>]

(***************************************************************************)
(* State.  The globals of the sketch keep their names; millis is the       *)
(* value of millis(), wallClock the value of time(nullptr), wifi whether   *)
(* WiFi.status() is WL_CONNECTED, pc the position of the sketch: in        *)
(* setup(), or before one of the steps of loop().  ev records what the     *)
(* last step did and with which inputs; ticks counts the clock advances.   *)
(* History: backfillWrites[i] counts the assignments backfill has made to  *)
(* sensorChangedAtEpoch[i] since channel i was last stamped (counted up to *)
(* 2), lastCheck is what the most recent handleCheckUpdate() fetched.      *)
(* debounce, timing and transport hold the arguments and the result of one *)
(* call of readStableSensorWet, intervalElapsed and fetchManifest.         *)
(***************************************************************************)
VARIABLES pc, millis, wallClock, wifi, ticks,
          snapshot, sensorInitialized, sensorChangedAtEpoch, sensorChangedAtMs,
          backfillWrites,
          lastSensorPollMs, lastClockSyncMs,
          updateAvailable, pendingUpdate, updateStatus, lastCheck,
          ev, manifest, body, parsed,
          debounce, timing, transport

clockVars == <<millis, wallClock, ticks>>
sensorVars == <<snapshot, sensorInitialized, sensorChangedAtEpoch, sensorChangedAtMs,
                backfillWrites>>
timerVars == <<lastSensorPollMs, lastClockSyncMs>>
updateVars == <<updateAvailable, pendingUpdate, updateStatus, lastCheck>>
parseVars == <<manifest, body, parsed>>
probeVars == <<debounce, timing, transport>>
vars == <<pc, wifi, clockVars, sensorVars, timerVars, updateVars, ev, parseVars, probeVars>>

NoFetch == [out |-> EmptyManifest, ok |-> FALSE, error |-> << >>]

\* op: the step; connected, hadUpdate, at, epoch: WiFi, updateAvailable,
\* millis() and time(nullptr) when it began; fetch: what fetchManifest
\* returned; ota, otaUrl, result: whether ESPhttpUpdate.update() was called,
\* with which URL and what it returned; polled, synced, backfill: whether
\* pollSensors(), syncClock() and backfillSensorEpochTimes() were called;
\* converted: the channels whose epoch the step changed.
NoEvent == [op |-> "none", connected |-> FALSE, hadUpdate |-> FALSE,
            fetch |-> NoFetch, ota |-> FALSE, otaUrl |-> << >>, result |-> "none",
            polled |-> FALSE, synced |-> FALSE, backfill |-> FALSE, converted |-> {},
            at |-> U32Zero, epoch |-> 0]

Event(op) == [NoEvent EXCEPT !.op = op, !.connected = wifi,
                             !.hadUpdate = updateAvailable,
                             !.at = millis, !.epoch = wallClock]

(***************************************************************************)
(* Clock facade                                                            *)
(***************************************************************************)
\* The test written as a comparison with the deadline lastMs + intervalMs.
intervalElapsedDeadline(now, lastMs, intervalMs) ==
  U32Ge(now, U32Add(lastMs, U32Of(intervalMs)))

\* intervalElapsed(lastMs, intervalMs) with millis() = now
intervalElapsed(now, lastMs, intervalMs) == U32Ge(U32Sub(now, lastMs), U32Of(intervalMs))

\* isTimeSynced() with time(nullptr) = epoch
isTimeSynced(epoch) == epoch >= MIN_VALID_EPOCH

(***************************************************************************)
(* Sensors                                                                 *)
(***************************************************************************)
SAMPLE_COUNT == 5
SAMPLE_DELAY_MS == 2

\* The vote asking for more than 3 asserted samples.
StableWetStrict(samples, inverted) ==
  LET highCount == Cardinality({k \in 1 .. SAMPLE_COUNT : samples[k] = HIGH})
      wet == highCount > 3
  IN  IF inverted THEN ~wet ELSE wet

\* The body of readStableSensorWet when the SAMPLE_COUNT reads of the pin
\* return samples and the channel's entry of SENSOR_INVERTED is inverted.
StableWet(samples, inverted) ==
  LET highCount == Cardinality({k \in 1 .. SAMPLE_COUNT : samples[k] = HIGH})
      wet == highCount >= 3
  IN  IF inverted THEN ~wet ELSE wet

\* readStableSensorWet(sensorIdx) when the reads of the pin return samples.
readStableSensorWet(samples, sensorIdx) == StableWet(samples, SENSOR_INVERTED[sensorIdx + 1])

\* The loop of calcTankPercent: filledBands after visiting i, i-1, .., 0.
RECURSIVE FilledBands(_, _, _)
FilledBands(wet, i, filledBands) ==
  IF i < 0 THEN filledBands
  ELSE IF wet[i] THEN FilledBands(wet, i - 1, filledBands + 1)
  ELSE filledBands

\* A fill level that counts every wet channel.
calcTankPercentAnyWet(wet) == Cardinality({i \in Channels : wet[i]}) * 25

calcTankPercent(wet) == FilledBands(wet, 3, 0) * 25

\* pollSensors stamping every channel at every poll.
StampedAlways(i, wetNow) == TRUE

\* The civil date of day number days (0 is 1970-01-01), as <<year, month, day>>.
CivilFromDays(days) ==
  LET z == days + 719468
      era == z \div 146097
      doe == z - era * 146097
      yoe == (doe - doe \div 1460 + doe \div 36524 - doe \div 146096) \div 365
      doy == doe - (365 * yoe + yoe \div 4 - yoe \div 100)
      mp == (5 * doy + 2) \div 153
      d == doy - (153 * mp + 2) \div 5 + 1
      m == IF mp < 10 THEN mp + 3 ELSE mp - 9
      y == yoe + era * 400 + (IF m <= 2 THEN 1 ELSE 0)
  IN  <<y, m, d>>

\* A number below 100 as two digits (%m, %d, %H, %M, %S of strftime).
TwoDigits(n) == <<Digits[(n \div 10) + 1], Digits[(n % 10) + 1]>>

\* formatEpoch(t): "-" for t <= 0, else strftime("%Y-%m-%d %H:%M:%S") of
\* the local time, which configTime sets up with offset 0.
formatEpoch(t) ==
  IF t <= 0 THEN <<"-">>
  ELSE LET date == CivilFromDays(t \div 86400)
           secs == t % 86400
       IN  NatToString(date[1]) \o <<"-">> \o TwoDigits(date[2]) \o <<"-">>
             \o TwoDigits(date[3]) \o <<SP>> \o TwoDigits(secs \div 3600) \o <<":">>
             \o TwoDigits((secs % 3600) \div 60) \o <<":">> \o TwoDigits(secs % 60)

\* "t+" + String(sensorChangedAtMs[idx] / 1000UL) + "s"
UptimeStr(changedAtMs) == <<"t+">> \o LongToString(U32Div1000(changedAtMs)) \o <<"s">>

\* sensorChangeTimeToStr(idx) called when time(nullptr) = nowEpoch.
sensorChangeTimeToStr(idx, nowEpoch) ==
  IF idx > 3 \/ sensorChangedAtMs[idx] = U32Zero THEN <<"-">>
  ELSE IF isTimeSynced(nowEpoch) /\ sensorChangedAtEpoch[idx] >= MIN_VALID_EPOCH
    THEN formatEpoch(sensorChangedAtEpoch[idx])
  ELSE UptimeStr(sensorChangedAtMs[idx])

\* The test of pollSensors that decides whether channel i is stamped.
Stamped(i, wetNow) == ~sensorInitialized[i] \/ wetNow # snapshot.wet[i]

\* The time the 4 * SAMPLE_COUNT delay() calls of one poll take.
PollDuration == U32Of(4 * SAMPLE_COUNT * SAMPLE_DELAY_MS)

\* The count going on from the last poll's, without the reset to 0.
WetCountNotReset(wetNow) == snapshot.wetCount + Cardinality({i \in Channels : wetNow[i]})

\* snapshot.wetCount after the loop of pollSensors: set to 0 before it and
\* incremented for each channel read wet.
WetCount(wetNow) == Cardinality({i \in Channels : wetNow[i]})

\* pollSensors() entered at millis() = nowMs and time(nullptr) = nowEpoch,
\* the pins reading scene[i] for channel i.
pollSensors(nowMs, nowEpoch, scene) ==
  LET wetNow == [i \in Channels |-> readStableSensorWet(scene[i], i)]
  IN  /\ sensorChangedAtMs' =
           [i \in Channels |-> IF Stamped(i, wetNow[i]) THEN nowMs ELSE sensorChangedAtMs[i]]
      /\ sensorChangedAtEpoch' =
           [i \in Channels |-> IF Stamped(i, wetNow[i]) THEN nowEpoch
                               ELSE sensorChangedAtEpoch[i]]
      /\ sensorInitialized' =
           [i \in Channels |-> IF Stamped(i, wetNow[i]) THEN TRUE ELSE sensorInitialized[i]]
      /\ snapshot' = [wet |-> wetNow,
                      wetCount |-> WetCount(wetNow),
                      tankPercent |-> calcTankPercent(wetNow),
                      sampledAtMs |-> U32Add(nowMs, PollDuration)]
      /\ backfillWrites' =
           [i \in Channels |-> IF Stamped(i, wetNow[i]) THEN 0 ELSE backfillWrites[i]]

\* The age taken as a difference of whole seconds, without the unsigned
\* subtraction.
AgeSecOfSeconds(nowMs, changedAtMs) == U32Div1000(nowMs) - U32Div1000(changedAtMs)

\* The age in seconds backfill subtracts for a transition stamped at changedAtMs.
AgeSec(nowMs, changedAtMs) == U32Div1000(U32Sub(nowMs, changedAtMs))

\* The skip test without its check for an epoch already valid.
BackfillSkipsUnstamped(i) == ~sensorInitialized[i] \/ sensorChangedAtMs[i] = U32Zero

\* The skip test without its check for an uptime stamp of 0.
BackfillSkipsValid(i) == ~sensorInitialized[i] \/ sensorChangedAtEpoch[i] >= MIN_VALID_EPOCH

\* The test of backfillSensorEpochTimes that skips channel i.
BackfillSkips(i) ==
  \/ ~sensorInitialized[i]
  \/ sensorChangedAtMs[i] = U32Zero
  \/ sensorChangedAtEpoch[i] >= MIN_VALID_EPOCH

\* loop() without its call of backfillSensorEpochTimes().
backfillNotCalled(nowEpoch, nowMs) == sensorChangedAtEpoch

\* Whether backfillSensorEpochTimes() entered at time(nullptr) = nowEpoch
\* reaches its assignment to sensorChangedAtEpoch[i].
BackfillWrites(nowEpoch, i) == isTimeSynced(nowEpoch) /\ ~BackfillSkips(i)

\* sensorChangedAtEpoch after backfillSensorEpochTimes() entered at
\* time(nullptr) = nowEpoch and millis() = nowMs.
backfillSensorEpochTimes(nowEpoch, nowMs) ==
  IF ~isTimeSynced(nowEpoch) THEN sensorChangedAtEpoch
  ELSE [i \in Channels |->
          IF BackfillSkips(i) THEN sensorChangedAtEpoch[i]
          ELSE LET ageSec == AgeSec(nowMs, sensorChangedAtMs[i])
               IN  IF nowEpoch > ageSec THEN nowEpoch - ageSec ELSE nowEpoch]

(***************************************************************************)
(* Update manifest protocol: the fetch                                     *)
(***************************************************************************)
\* The test accepting every status from 200 to 299.
GetFailedUnless2xx(httpCode) == httpCode \notin 200 .. 299

\* The test fetchTextFromUrl makes on what http.GET() returned.
GetFailed(httpCode) == httpCode # HTTP_CODE_OK

\* fetchTextFromUrl(url, body, error) when the transport answers resp:
\* resp.begin is what http.begin() returns, resp.code what http.GET()
\* returns, resp.body what http.getString() returns.
fetchTextFromUrl(resp) ==
  IF ~resp.begin
    THEN [body |-> << >>, ok |-> FALSE, error |-> <<"cannot open URL">>]
  ELSE IF GetFailed(resp.code)
    THEN [body |-> << >>, ok |-> FALSE, error |-> <<"HTTP ">> \o LongToString(resp.code)]
  ELSE [body |-> resp.body, ok |-> TRUE, error |-> << >>]

\* fetchManifest(out, error)
fetchManifest(resp) ==
  LET text == fetchTextFromUrl(resp)
  IN  IF ~text.ok THEN [out |-> EmptyManifest, ok |-> FALSE, error |-> text.error]
      ELSE parseManifest(text.body)

(***************************************************************************)
(* Inputs.  A manifest body is written as a sequence of line items: a      *)
(* key=value line with its key, the value it carries and how the line is   *)
(* spelled, or a line that carries nothing (key "none") with its text.     *)
(***************************************************************************)
MaxLines == 3
MaxTicks == 2
MaxUpdateTicks == 1

WireKey == [version_code |-> <<"v", "e", "r", "s", "i", "o", "n", "_", "c", "o", "d", "e">>,
            version_name |-> <<"v", "e", "r", "s", "i", "o", "n", "_", "n", "a", "m", "e">>,
            firmware_url |-> <<"f", "i", "r", "m", "w", "a", "r", "e", "_", "u", "r", "l">>,
            other |-> <<"b", "u", "i", "l", "d", "_", "d", "a", "t", "e">>]

WireKeyUpper == [version_code |-> <<"V", "e", "r", "s", "i", "o", "n", "_", "C", "o", "d", "e">>,
                 version_name |-> <<"V", "E", "R", "S", "I", "O", "N", "_", "N", "A", "M", "E">>,
                 firmware_url |-> <<"F", "I", "R", "M", "W", "A", "R", "E", "_", "U", "R", "L">>,
                 other |-> <<"B", "U", "I", "L", "D", "_", "D", "A", "T", "E">>]

Item(key, val, num, style) == [key |-> key, val |-> val, num |-> num, style |-> style, raw |-> << >>]

RawLine(text) == [key |-> "none", val |-> << >>, num |-> 0, style |-> "plain", raw |-> text]

LineText(l) ==
  IF l.key = "none" THEN l.raw
  ELSE LET k == IF l.style = "upper" THEN WireKeyUpper[l.key] ELSE WireKey[l.key]
       IN  IF l.style = "padded"
             THEN <<SP>> \o k \o <<SP, "=", TAB>> \o l.val \o <<SP, CR>>
             ELSE k \o <<"=">> \o l.val

\* The body: every line followed by a newline, the last one only if trailing.
RECURSIVE RenderBody(_, _)
RenderBody(items, trailing) ==
  IF items = << >> THEN << >>
  ELSE LineText(Head(items))
         \o (IF Len(items) > 1 \/ trailing THEN <<NL>> ELSE << >>)
         \o RenderBody(Tail(items), trailing)

URL_A == <<"h", "t", "t", "p", "s", ":", "/", "/", "h", "/", "a">>
URL_B == <<"h", "t", "t", "p", ":", "/", "/", "h", "/", "b">>
NAME_A == <<"7", ".", "1", ".", "6">>

CODE_42 == Item("version_code", <<"4", "2">>, 42, "plain")
CODE_NEW == Item("version_code", <<"2", "0", "2", "6", "0", "2", "2", "3", "0", "4">>, FW_VERSION_CODE + 1, "plain")
CODE_NEWER == Item("version_code", <<"2", "0", "2", "6", "0", "2", "2", "3", "0", "5">>, FW_VERSION_CODE + 2, "padded")
CODE_SAME == Item("version_code", <<"2", "0", "2", "6", "0", "2", "2", "3", "0", "3">>, FW_VERSION_CODE, "upper")
CODE_ZERO == Item("version_code", <<"0">>, 0, "plain")
CODE_TEXT == Item("version_code", <<"x", "1">>, 0, "plain")

ManifestLines ==
  { CODE_42, CODE_ZERO, CODE_TEXT,
    Item("version_code", <<"7">>, 7, "padded"),
    Item("version_code", <<"-", "5">>, 0 - 5, "upper"),
    Item("version_name", NAME_A, 0, "plain"),
    Item("version_name", << >>, 0, "padded"),
    Item("firmware_url", URL_B, 0, "plain"),
    Item("firmware_url", URL_A, 0, "upper"),
    Item("firmware_url", << >>, 0, "plain"),
    Item("other", <<"7">>, 0, "plain"),
    RawLine(<< >>),
    RawLine(<<SP, "#", "f", "i", "r", "m", "w", "a", "r", "e", "_", "u", "r", "l", "=", "h", "t", "t", "p", ":", "/", "/", "h", "/", "c">>),
    RawLine(<<"v", "e", "r", "s", "i", "o", "n", "_", "c", "o", "d", "e", SP, "9">>),
    RawLine(<<"=", "5">>) }

RECURSIVE SeqsUpTo(_, _)
SeqsUpTo(S, n) ==
  IF n = 0 THEN {<< >>}
  ELSE LET shorter == SeqsUpTo(S, n - 1)
       IN  shorter \cup {Append(s, x) : s \in {q \in shorter : Len(q) = n - 1}, x \in S}

\* The manifests the server answers a check with.
CheckManifests ==
  { <<CODE_NEW, Item("version_name", NAME_A, 0, "plain"), Item("firmware_url", URL_A, 0, "plain")>>,
    <<CODE_NEWER, Item("firmware_url", URL_B, 0, "padded")>>,
    <<CODE_SAME, Item("firmware_url", URL_A, 0, "plain")>>,
    <<CODE_42, Item("firmware_url", URL_B, 0, "plain")>>,
    <<CODE_NEW, Item("version_name", NAME_A, 0, "plain")>>,
    <<Item("firmware_url", URL_A, 0, "plain")>> }

Response(begin, code, text) == [body |-> text, begin |-> begin, code |-> code]

Responses ==
  {Response(TRUE, HTTP_CODE_OK, RenderBody(m, TRUE)) : m \in CheckManifests}
    \cup {Response(FALSE, 0, << >>), Response(TRUE, 404, << >>),
          Response(TRUE, 204, << >>), Response(TRUE, 0 - 1, << >>)}

\* Each answer of the server with what fetchManifest returns for it.
Exchanges == {[resp |-> resp, fetched |-> fetchManifest(resp)] : resp \in Responses}

OtaResults == {"HTTP_UPDATE_FAILED", "HTTP_UPDATE_NO_UPDATES", "HTTP_UPDATE_OK"}
OtaErrors == {0 - 1, 0 - 104}

\* Five reads of one pin: a wet sensor with one bounce, a dry one with one.
WetSamples == <<HIGH, HIGH, LOW, HIGH, HIGH>>
DrySamples == <<LOW, LOW, HIGH, LOW, LOW>>

SceneOf(w) == [i \in Channels |-> IF w[i + 1] THEN WetSamples ELSE DrySamples]

Scenes ==
  { SceneOf(<<TRUE, FALSE, TRUE, TRUE>>), SceneOf(<<TRUE, FALSE, FALSE, TRUE>>),
    SceneOf(<<TRUE, TRUE, TRUE, TRUE>>), SceneOf(<<FALSE, FALSE, FALSE, FALSE>>) }

\* The scenes of the runs that follow the update flow.
UpdateScenes == {SceneOf(<<TRUE, FALSE, TRUE, TRUE>>), SceneOf(<<FALSE, FALSE, FALSE, TRUE>>)}

\* The advance that takes millis() from the end of setup() to one poll and
\* one retry interval before the 32-bit counter is back at 0.
NearWrap ==
  U32Sub(U32Zero, U32Add(U32Add(U32Of(1000), PollDuration),
                         U32Add(PollDuration, U32Of(CLOCK_RETRY_MS))))

\* Advances of millis(): one retry interval, and nearly a full turn of the
\* 32-bit counter.
Deltas == {U32Of(CLOCK_RETRY_MS), NearWrap}

UpdateDeltas == {U32Of(4000)}

\* The time setup() takes up to pollSensors().
BootDelays == {U32Of(1000)}

\* The epoch the time server reports for the moment of boot.
BootEpochs == {MIN_VALID_EPOCH}

(***************************************************************************)
(* Update state machine                                                    *)
(***************************************************************************)
STATUS_INITIAL == <<"No update check yet.">>
STATUS_READY == <<"Device ready. Run 'Check for Update' when needed.">>
STATUS_CHECK_NO_WIFI == <<"Cannot check update: WiFi is disconnected.">>
STATUS_CURRENT == <<"No new update. Device is current.">>
STATUS_NO_PENDING == <<"No pending update. Run check first.">>
STATUS_INSTALL_NO_WIFI == <<"Cannot install update: WiFi is disconnected.">>
STATUS_OTA_NO_UPDATES == <<"OTA result: no updates returned by server.">>
STATUS_OTA_SUCCESS == <<"OTA reported success.">>

StatusCheckFailed(error) == <<"Update check failed: ">> \o error

StatusUpdateFound(latest) ==
  <<"Update found: ">> \o latest.versionName \o <<" (">>
    \o LongToString(latest.versionCode) \o <<").">>

StatusOtaFailed(lastError) ==
  <<"OTA failed (">> \o LongToString(lastError) \o <<"): ">>
    \o <<"ESPhttpUpdate.getLastErrorString()">>

\* The comparison with >= for >.
IsNewerOrSame(latest) == latest.versionCode >= FW_VERSION_CODE

\* The comparison handleCheckUpdate makes on the fetched manifest.
IsNewer(latest) == latest.versionCode > FW_VERSION_CODE

\* pendingUpdate after a check whose fetchManifest failed.
PendingAfterFailedCheck == pendingUpdate

\* The failure branch leaving updateAvailable as it was.
AvailableKeptOnFailedCheck == updateAvailable

\* updateAvailable after a check whose fetchManifest failed.
AvailableAfterFailedCheck == FALSE

\* The update state (updateAvailable, pendingUpdate, updateStatus) after
\* handleCheckUpdate(), fetchManifest returning x.fetched.
CheckOutcome(x) ==
  IF ~wifi
    THEN [available |-> FALSE, pending |-> pendingUpdate, status |-> STATUS_CHECK_NO_WIFI]
  ELSE
    LET r == x.fetched
    IN  IF ~r.ok
          THEN [available |-> AvailableAfterFailedCheck, pending |-> PendingAfterFailedCheck,
                status |-> StatusCheckFailed(r.error)]
        ELSE IF IsNewer(r.out)
          THEN [available |-> TRUE, pending |-> r.out, status |-> StatusUpdateFound(r.out)]
        ELSE [available |-> FALSE, pending |-> EmptyManifest, status |-> STATUS_CURRENT]

\* handleInstallUpdate without its first early return, and without its
\* second.
InstallIgnoresAvailable == FALSE

InstallIgnoresWifi == FALSE

\* The two early returns of handleInstallUpdate.
InstallRefusedNoUpdate == ~updateAvailable

InstallRefusedNoWifi == ~wifi

\* The HTTP_UPDATE_NO_UPDATES branch forgetting to clear updateAvailable.
OtaClearsOnlyOnFailed(result) == result = "HTTP_UPDATE_FAILED"

\* Whether handleInstallUpdate clears updateAvailable for this OTA result.
OtaClearsAvailable(result) == result \in {"HTTP_UPDATE_FAILED", "HTTP_UPDATE_NO_UPDATES"}

\* updateStatus after ESPhttpUpdate.update() returned result.
StatusAfterOta(result, lastError) ==
  IF result = "HTTP_UPDATE_FAILED" THEN StatusOtaFailed(lastError)
  ELSE IF result = "HTTP_UPDATE_NO_UPDATES" THEN STATUS_OTA_NO_UPDATES
  ELSE STATUS_OTA_SUCCESS

(***************************************************************************)
(* The sketch: global initializers, setup(), the steps of loop(), and the  *)
(* environment (time passing, the time server answering, WiFi coming and   *)
(* going).                                                                 *)
(***************************************************************************)
NotParsed == [out |-> EmptyManifest, ok |-> FALSE, error |-> << >>, done |-> FALSE]

\* No call of readStableSensorWet, intervalElapsed, fetchManifest made yet.
NoDebounce == [samples |-> << >>, inverted |-> FALSE, wet |-> FALSE, done |-> FALSE]

NoTiming == [result |-> FALSE, now |-> U32Zero, lastMs |-> U32Zero, intervalMs |-> 0,
             done |-> FALSE, elapsed |-> U32Zero]

NoTransport == [resp |-> Response(FALSE, 0, << >>),
                text |-> [body |-> << >>, ok |-> FALSE, error |-> << >>],
                fetched |-> NoFetch, done |-> FALSE]

\* The globals as their initializers leave them.
InitialSnapshot == [wet |-> [i \in Channels |-> FALSE], wetCount |-> 0,
                    tankPercent |-> 0, sampledAtMs |-> U32Zero]

InitGlobals ==
  /\ snapshot = InitialSnapshot
  /\ pendingUpdate = EmptyManifest
  /\ updateAvailable = FALSE
  /\ updateStatus = STATUS_INITIAL
  /\ sensorInitialized = [i \in Channels |-> FALSE]
  /\ sensorChangedAtEpoch = [i \in Channels |-> 0]
  /\ sensorChangedAtMs = [i \in Channels |-> U32Zero]
  /\ lastSensorPollMs = U32Zero
  /\ lastClockSyncMs = U32Zero
  /\ backfillWrites = [i \in Channels |-> 0]
  /\ lastCheck = NoFetch

\* A restart: the globals are initialized again.
ResetGlobals ==
  /\ snapshot' = InitialSnapshot
  /\ pendingUpdate' = EmptyManifest
  /\ updateAvailable' = FALSE
  /\ updateStatus' = STATUS_INITIAL
  /\ sensorInitialized' = [i \in Channels |-> FALSE]
  /\ sensorChangedAtEpoch' = [i \in Channels |-> 0]
  /\ sensorChangedAtMs' = [i \in Channels |-> U32Zero]
  /\ lastSensorPollMs' = U32Zero
  /\ lastClockSyncMs' = U32Zero
  /\ backfillWrites' = [i \in Channels |-> 0]
  /\ lastCheck' = NoFetch

Init ==
  /\ InitGlobals
  /\ pc = "setup"
  /\ millis = U32Zero
  /\ wallClock = 0
  /\ wifi = FALSE
  /\ ticks = 0
  /\ ev = NoEvent
  /\ manifest = << >>
  /\ body = << >>
  /\ parsed = NotParsed
  /\ debounce = NoDebounce
  /\ timing = NoTiming
  /\ transport = NoTransport

\* setup(): connectWiFi() returns connected after d ms, then syncClock(),
\* pollSensors() and the ready status.
Setup(d, scene) ==
  /\ pc = "setup"
  /\ LET nowMs == U32Add(millis, d)
         nowEpoch == wallClock + U32Div1000(d)
     IN  /\ wifi' = TRUE
         /\ lastClockSyncMs' = nowMs
         /\ pollSensors(nowMs, nowEpoch, scene)
         /\ millis' = U32Add(nowMs, PollDuration)
         /\ wallClock' = nowEpoch
         /\ ev' = [NoEvent EXCEPT !.op = "setup", !.connected = TRUE, !.polled = TRUE,
                                  !.synced = TRUE, !.at = nowMs, !.epoch = nowEpoch]
  /\ updateStatus' = STATUS_READY
  /\ pc' = "serve"
  /\ UNCHANGED <<ticks, lastSensorPollMs, updateAvailable, pendingUpdate, lastCheck,
                 parseVars, probeVars>>

\* server.handleClient() with no request, or one that only reads (handleRoot).
ServeNone ==
  /\ pc = "serve"
  /\ pc' = "clock"
  /\ ev' = Event("none")
  /\ UNCHANGED <<wifi, clockVars, sensorVars, timerVars, updateVars, parseVars, probeVars>>

\* server.handleClient() dispatching POST /check-update.
handleCheckUpdate(x) ==
  /\ pc = "serve"
  /\ LET o == CheckOutcome(x)
     IN  /\ updateAvailable' = o.available
         /\ pendingUpdate' = o.pending
         /\ updateStatus' = o.status
  /\ ev' = [Event("check") EXCEPT !.fetch = IF wifi THEN x.fetched ELSE NoFetch]
  /\ lastCheck' = IF wifi THEN x.fetched ELSE NoFetch
  /\ pc' = "clock"
  /\ UNCHANGED <<wifi, clockVars, sensorVars, timerVars, parseVars, probeVars>>

\* handleInstallUpdate() returning early: nothing pending, or no WiFi.
InstallRefused ==
  /\ pc = "serve"
  /\ InstallRefusedNoUpdate \/ InstallRefusedNoWifi
  /\ updateStatus' = IF InstallRefusedNoUpdate THEN STATUS_NO_PENDING
                     ELSE STATUS_INSTALL_NO_WIFI
  /\ ev' = Event("install")
  /\ pc' = "clock"
  /\ UNCHANGED <<wifi, clockVars, sensorVars, timerVars, updateAvailable, pendingUpdate,
                 lastCheck, parseVars, probeVars>>

\* handleInstallUpdate() calling ESPhttpUpdate.update(), which returns result.
InstallReturns(result, lastError) ==
  /\ pc = "serve"
  /\ ~InstallRefusedNoUpdate
  /\ ~InstallRefusedNoWifi
  /\ updateStatus' = StatusAfterOta(result, lastError)
  /\ updateAvailable' = IF OtaClearsAvailable(result) THEN FALSE ELSE updateAvailable
  /\ ev' = [Event("install") EXCEPT !.ota = TRUE, !.otaUrl = pendingUpdate.firmwareUrl,
                                    !.result = result]
  /\ pc' = "clock"
  /\ UNCHANGED <<wifi, clockVars, sensorVars, timerVars, pendingUpdate, lastCheck,
                 parseVars, probeVars>>

\* handleInstallUpdate() calling ESPhttpUpdate.update(), which flashes the
\* image and restarts the device: the sketch starts again from its
\* initializers.
InstallReboots ==
  /\ pc = "serve"
  /\ ~InstallRefusedNoUpdate
  /\ ~InstallRefusedNoWifi
  /\ ResetGlobals
  /\ pc' = "setup"
  /\ millis' = U32Zero
  /\ wallClock' = 0
  /\ wifi' = FALSE
  /\ ev' = [Event("install") EXCEPT !.ota = TRUE, !.otaUrl = pendingUpdate.firmwareUrl,
                                    !.result = "restart"]
  /\ UNCHANGED <<ticks, parseVars, probeVars>>

handleInstallUpdate ==
  \/ InstallRefused
  \/ \E result \in OtaResults, lastError \in OtaErrors : InstallReturns(result, lastError)
  \/ InstallReboots

\* The retry interval used whether or not the clock is trusted.
SyncIntervalRetry(epoch) == CLOCK_RETRY_MS

\* syncInterval of loop() when time(nullptr) = epoch.
SyncInterval(epoch) == IF isTimeSynced(epoch) THEN CLOCK_RESYNC_MS ELSE CLOCK_RETRY_MS

\* The clock part of loop(): when connected, syncClock() if its interval
\* has elapsed, then backfillSensorEpochTimes().
ClockStep ==
  /\ pc = "clock"
  /\ LET syncInterval == SyncInterval(wallClock)
         sync == wifi /\ intervalElapsed(millis, lastClockSyncMs, syncInterval)
     IN  /\ lastClockSyncMs' = IF sync THEN millis ELSE lastClockSyncMs
         /\ sensorChangedAtEpoch' =
              IF wifi THEN backfillSensorEpochTimes(wallClock, millis)
              ELSE sensorChangedAtEpoch
         /\ backfillWrites' =
              [i \in Channels |->
                 IF wifi /\ BackfillWrites(wallClock, i) /\ backfillWrites[i] < 2
                   THEN backfillWrites[i] + 1 ELSE backfillWrites[i]]
         /\ ev' = [Event("clock") EXCEPT
                     !.synced = sync, !.backfill = wifi,
                     !.converted = {i \in Channels :
                                      sensorChangedAtEpoch'[i] # sensorChangedAtEpoch[i]}]
  /\ pc' = "poll"
  /\ UNCHANGED <<wifi, clockVars, snapshot, sensorInitialized, sensorChangedAtMs,
                 lastSensorPollMs, updateVars, parseVars, probeVars>>

\* The poll part of loop(): pollSensors() when SENSOR_POLL_MS has elapsed.
PollStep(scene) ==
  /\ pc = "poll"
  /\ IF intervalElapsed(millis, lastSensorPollMs, SENSOR_POLL_MS)
       THEN /\ pollSensors(millis, wallClock, scene)
            /\ millis' = U32Add(millis, PollDuration)
            /\ lastSensorPollMs' = millis'
            /\ ev' = [Event("poll") EXCEPT !.polled = TRUE]
       ELSE /\ ev' = Event("poll")
            /\ UNCHANGED <<millis, sensorVars, lastSensorPollMs>>
  /\ pc' = "serve"
  /\ UNCHANGED <<wifi, wallClock, ticks, lastClockSyncMs, updateVars, parseVars, probeVars>>

\* Time passes: millis() advances by d, wrapping at 2^32, and the wall
\* clock by the whole seconds of d.
Tick(d, max) ==
  /\ pc # "setup"
  /\ ticks < max
  /\ ticks' = ticks + 1
  /\ millis' = U32Add(millis, d)
  /\ wallClock' = wallClock + U32Div1000(d)
  /\ UNCHANGED <<pc, wifi, sensorVars, timerVars, updateVars, ev, parseVars, probeVars>>

\* The time server's answer arrives: time(nullptr) becomes the real time.
NtpSync(bootEpoch) ==
  /\ pc # "setup"
  /\ wifi
  /\ ~isTimeSynced(wallClock)
  /\ wallClock' = bootEpoch + wallClock
  /\ UNCHANGED <<pc, wifi, millis, ticks, sensorVars, timerVars, updateVars, ev, parseVars, probeVars>>

WifiDrop ==
  /\ pc # "setup"
  /\ wifi
  /\ wifi' = FALSE
  /\ UNCHANGED <<pc, clockVars, sensorVars, timerVars, updateVars, ev, parseVars, probeVars>>

WifiUp ==
  /\ pc # "setup"
  /\ ~wifi
  /\ wifi' = TRUE
  /\ UNCHANGED <<pc, clockVars, sensorVars, timerVars, updateVars, ev, parseVars, probeVars>>

Next ==
  \/ \E d \in BootDelays, scene \in UpdateScenes : Setup(d, scene)
  \/ ServeNone
  \/ \E x \in Exchanges : handleCheckUpdate(x)
  \/ handleInstallUpdate
  \/ ClockStep
  \/ \E scene \in UpdateScenes : PollStep(scene)
  \/ \E d \in UpdateDeltas : Tick(d, MaxUpdateTicks)
  \/ \E bootEpoch \in BootEpochs : NtpSync(bootEpoch)
  \/ WifiDrop
  \/ WifiUp

Spec == Init /\ [][Next]_vars

\* The sketch when no update request arrives.
NextSensors ==
  \/ \E d \in BootDelays, scene \in Scenes : Setup(d, scene)
  \/ ServeNone
  \/ ClockStep
  \/ \E scene \in Scenes : PollStep(scene)
  \/ \E d \in Deltas : Tick(d, MaxTicks)
  \/ \E bootEpoch \in BootEpochs : NtpSync(bootEpoch)
  \/ WifiDrop
  \/ WifiUp

SpecSensors == Init /\ [][NextSensors]_vars

(***************************************************************************)
(* Properties of the update state machine, checked under Spec.             *)
(***************************************************************************)
\* A step of the sketch that ran handleCheckUpdate / handleInstallUpdate.
CheckStep == pc = "serve" /\ pc' # "serve" /\ ev'.op = "check"

InstallStep == pc = "serve" /\ pc' # "serve" /\ ev'.op = "install"

\* The state is the one a check left behind (only the environment has
\* moved since).
AfterCheck == ev.op = "check"

\* C1: after a check run while connected whose manifest was fetched and
\* parsed, updateAvailable is true iff the manifest's versionCode exceeds
\* FW_VERSION_CODE; when true pendingUpdate is the fetched manifest, when
\* false pendingUpdate is {0, "", ""}.
C1_CheckDecides ==
  (AfterCheck /\ ev.connected /\ ev.fetch.ok) =>
    /\ updateAvailable <=> (ev.fetch.out.versionCode > FW_VERSION_CODE)
    /\ updateAvailable => pendingUpdate = ev.fetch.out
    /\ ~updateAvailable => pendingUpdate = EmptyManifest

\* A successful check found nothing newer while an update was pending, and
\* discarded it.
C1_Witness ==
  /\ AfterCheck /\ ev.connected /\ ev.fetch.ok /\ ev.hadUpdate
  /\ ev.fetch.out.versionCode = FW_VERSION_CODE
  /\ ~updateAvailable
  /\ pendingUpdate = EmptyManifest

\* C2: after a check whose fetch or parse failed, updateAvailable is false,
\* the status carries the failure reason, and the pending manifest is
\* cleared to {0, "", ""}.
C2_FailedCheckClears ==
  (AfterCheck /\ ev.connected /\ ~ev.fetch.ok) =>
    /\ ~updateAvailable
    /\ updateStatus = <<"Update check failed: ">> \o ev.fetch.error
    /\ Len(ev.fetch.error) > 0
    /\ pendingUpdate = EmptyManifest

\* C3: an install trigger received while updateAvailable is false calls no
\* OTA transfer, leaves updateAvailable, pendingUpdate, the snapshot and
\* the transition records unchanged, and sets the status to the
\* "no pending update" text.
C3_InstallWithoutUpdate ==
  [][(InstallStep /\ ~updateAvailable) =>
       /\ ~ev'.ota
       /\ updateStatus' = <<"No pending update. Run check first.">>
       /\ UNCHANGED <<updateAvailable, pendingUpdate, snapshot, sensorInitialized,
                      sensorChangedAtEpoch, sensorChangedAtMs>>]_vars

\* An install was refused for want of an update, with the sensors sampled
\* and a manifest of an earlier check still stored.
C3_Witness ==
  /\ ev.op = "install" /\ ~ev.hadUpdate /\ ~ev.ota
  /\ updateStatus = STATUS_NO_PENDING
  /\ pendingUpdate.versionCode > FW_VERSION_CODE
  /\ \A i \in Channels : sensorInitialized[i]

\* C4: the OTA transfer is called only by an install trigger that arrives
\* while updateAvailable is true and WiFi is connected; an install trigger
\* that arrives while disconnected calls no OTA transfer and changes
\* nothing but the status message.
C4_OtaOnlyWhenArmedAndConnected ==
  [][/\ (pc' # pc /\ ev'.ota) => (InstallStep /\ updateAvailable /\ wifi)
     /\ (InstallStep /\ ~wifi) =>
          /\ ~ev'.ota
          /\ UNCHANGED <<updateAvailable, pendingUpdate, wifi, clockVars, sensorVars,
                         timerVars>>]_vars

\* An install was refused while disconnected with an update pending, which
\* stays pending.
C4_Witness ==
  /\ ev.op = "install" /\ ev.hadUpdate /\ ~ev.connected /\ ~ev.ota
  /\ updateStatus = STATUS_INSTALL_NO_WIFI
  /\ updateAvailable
  /\ pendingUpdate.versionCode > FW_VERSION_CODE

\* C5: an install whose OTA result is Failed or NoUpdate leaves
\* updateAvailable false; while updateAvailable is false an install calls
\* no OTA transfer; and updateAvailable becomes true again only by a check
\* that succeeds with a manifest whose versionCode exceeds FW_VERSION_CODE.
C5_FailedInstallDisarms ==
  [][/\ (InstallStep /\ ev'.ota
           /\ ev'.result \in {"HTTP_UPDATE_FAILED", "HTTP_UPDATE_NO_UPDATES"})
          => ~updateAvailable'
     /\ (InstallStep /\ ~updateAvailable) => ~ev'.ota
     /\ (~updateAvailable /\ updateAvailable') =>
          /\ CheckStep
          /\ ev'.fetch.ok
          /\ ev'.fetch.out.versionCode > FW_VERSION_CODE]_vars

\* The OTA transfer returned "no updates" and the update is no longer
\* available.
C5_Witness ==
  /\ ev.op = "install" /\ ev.ota /\ ev.hadUpdate
  /\ ev.result = "HTTP_UPDATE_NO_UPDATES"
  /\ ~updateAvailable
  /\ updateStatus = STATUS_OTA_NO_UPDATES

\* pendingUpdate is the manifest the most recent check fetched, newer than
\* the running firmware and with a firmware URL.
PendingIsLatestCheck ==
  /\ lastCheck.ok
  /\ pendingUpdate = lastCheck.out
  /\ pendingUpdate.versionCode > FW_VERSION_CODE
  /\ pendingUpdate.firmwareUrl # << >>

\* C18: in every reachable state, updateAvailable implies that
\* pendingUpdate is the manifest returned by the most recent check, with
\* versionCode > FW_VERSION_CODE and a non-empty firmwareUrl; and the URL
\* handed to ESPhttpUpdate.update() is always the firmware URL of the
\* latest check's manifest.
C18_PendingIsLatestCheck ==
  /\ [](updateAvailable => PendingIsLatestCheck)
  /\ [][(InstallStep /\ ev'.ota) =>
          (lastCheck.ok /\ ev'.otaUrl = lastCheck.out.firmwareUrl /\ ev'.otaUrl # << >>)]_vars

\* The latest check found the manifest two versions ahead, and an install
\* that returned without a restart was handed that manifest's URL; the
\* update is still available.
C18_Witness ==
  /\ ev.op = "install" /\ ev.ota /\ ev.result = "HTTP_UPDATE_OK"
  /\ updateAvailable
  /\ lastCheck.out.versionCode = FW_VERSION_CODE + 2
  /\ ev.otaUrl = lastCheck.out.firmwareUrl
  /\ ev.otaUrl = URL_B

(***************************************************************************)
(* Properties of the snapshot engine and of the backfill, checked under    *)
(* SpecSensors.                                                            *)
(***************************************************************************)
\* The value of a string of decimal digits.
RECURSIVE DigitsValue(_)
DigitsValue(s) ==
  IF s = << >> THEN 0
  ELSE 10 * DigitsValue(SubSeq(s, 1, Len(s) - 1))
         + CHOOSE d \in 0 .. 9 : Digits[d + 1] = s[Len(s)]

\* s is the decimal string of the positive number n.
IsDecimalOf(s, n) ==
  /\ Len(s) > 0
  /\ \A k \in 1 .. Len(s) : \E d \in 1 .. 10 : Digits[d] = s[k]
  /\ s[1] # "0"
  /\ DigitsValue(s) = n

\* A step of the sketch that ran pollSensors(), in setup() or in loop().
PollRan == pc' # pc /\ ev'.polled

\* A step of loop() that ran backfillSensorEpochTimes().
BackfillRan == pc = "clock" /\ pc' = "poll" /\ ev'.backfill

\* C6: a poll writes a channel's transition record (uptime, epoch,
\* initialized) iff the channel had never been sampled or its new debounced
\* value differs from the one stored in the snapshot; a poll that reads the
\* stored value again leaves the record as it was.
C6_StampedIffChanged ==
  [][PollRan =>
       /\ pc = "poll" => (ev'.at = millis /\ ev'.epoch = wallClock)
       /\ \A i \in Channels :
            IF ~sensorInitialized[i] \/ snapshot'.wet[i] # snapshot.wet[i]
              THEN /\ sensorChangedAtMs'[i] = ev'.at
                   /\ sensorChangedAtEpoch'[i] = ev'.epoch
                   /\ sensorInitialized'[i]
              ELSE /\ sensorChangedAtMs'[i] = sensorChangedAtMs[i]
                   /\ sensorChangedAtEpoch'[i] = sensorChangedAtEpoch[i]
                   /\ sensorInitialized'[i] = sensorInitialized[i]]_vars

\* A poll of loop() stamped one channel and left the record of another,
\* sampled before, as it was.
C6_Witness ==
  /\ ev.op = "poll" /\ ev.polled
  /\ \E i, j \in Channels :
       /\ sensorInitialized[i] /\ sensorChangedAtMs[i] = ev.at
       /\ sensorInitialized[j] /\ sensorChangedAtMs[j] # ev.at

\* The wet channels counted from index 3 down to 0 up to the first dry one.
ContiguousFromBottom(wet) ==
  Cardinality({i \in Channels : \A j \in i .. 3 : wet[j]})

\* C7: in every state between the steps of the sketch, snapshot.tankPercent
\* is 25 times the number of contiguous wet channels counted from index 3
\* down to index 0.
C7_TankPercentContiguous ==
  snapshot.tankPercent = 25 * ContiguousFromBottom(snapshot.wet)

\* wet = [T,F,T,T] with 50 percent: the wet top channel is not counted.
C7_Witness ==
  /\ snapshot.wet = [i \in Channels |-> i # 1]
  /\ snapshot.wetCount = 3
  /\ snapshot.tankPercent = 50

\* The number of true entries of wet.
TrueEntries(wet) ==
  (IF wet[0] THEN 1 ELSE 0) + (IF wet[1] THEN 1 ELSE 0)
    + (IF wet[2] THEN 1 ELSE 0) + (IF wet[3] THEN 1 ELSE 0)

\* C21: in every state between the steps of loop(), snapshot.wetCount is
\* the number of true entries of snapshot.wet, snapshot.tankPercent is one
\* of 0, 25, 50, 75, 100 and at most 25 * wetCount, and a channel's
\* sensorInitialized flag, once true, never becomes false again.
C21_SnapshotConsistent ==
  /\ [](/\ snapshot.wetCount = TrueEntries(snapshot.wet)
        /\ snapshot.tankPercent \in {0, 25, 50, 75, 100}
        /\ snapshot.tankPercent <= 25 * snapshot.wetCount)
  /\ [][\A i \in Channels : sensorInitialized[i] => sensorInitialized'[i]]_vars

\* A poll of loop() read wet = [T,F,F,T]: two wet channels, 25 percent, every
\* channel still initialized, channel 3 unchanged since an earlier poll.
C21_Witness ==
  /\ ev.op = "poll" /\ ev.polled
  /\ snapshot.wet = [i \in Channels |-> i \in {0, 3}]
  /\ snapshot.wetCount = 2
  /\ snapshot.tankPercent = 25
  /\ \A i \in Channels : sensorInitialized[i]
  /\ sensorChangedAtMs[3] # ev.at

\* C8: backfill leaves the epoch of every channel that already holds one at
\* or above MIN_VALID_EPOCH as it is.
C8_BackfillIdempotent ==
  [][BackfillRan =>
       \A i \in Channels :
         sensorChangedAtEpoch[i] >= MIN_VALID_EPOCH =>
           sensorChangedAtEpoch'[i] = sensorChangedAtEpoch[i]]_vars

\* Backfill ran with the clock trusted on a channel that held a valid epoch
\* and kept it, although computing it anew would have given another value.
C8_Witness ==
  /\ ev.op = "clock" /\ ev.backfill /\ isTimeSynced(ev.epoch)
  /\ ev.converted = {}
  /\ \E i \in Channels :
       /\ sensorInitialized[i]
       /\ sensorChangedAtMs[i] # U32Zero
       /\ sensorChangedAtEpoch[i] >= MIN_VALID_EPOCH
       /\ sensorChangedAtEpoch[i] # ev.epoch - U32Div1000(U32Sub(ev.at, sensorChangedAtMs[i]))

\* C9: when backfill converts a channel while the clock is trusted, the
\* epoch it stores is nowEpoch - floor(((nowMs - changedAtMs) mod 2^32) / 1000)
\* and does not exceed nowEpoch, also when millis() has wrapped since the
\* transition.
C9_BackfillValue ==
  [][(BackfillRan /\ isTimeSynced(wallClock)) =>
       \A i \in Channels :
         (/\ sensorInitialized[i]
          /\ sensorChangedAtMs[i] # U32Zero
          /\ sensorChangedAtEpoch[i] < MIN_VALID_EPOCH) =>
           /\ sensorChangedAtEpoch'[i] =
                wallClock - U32Div1000(U32Sub(millis, sensorChangedAtMs[i]))
           /\ sensorChangedAtEpoch'[i] <= wallClock]_vars

\* Backfill converted a channel whose transition was stamped at an uptime
\* above the current one: millis() wrapped in between.
C9_Witness ==
  /\ ev.op = "clock" /\ ev.backfill /\ isTimeSynced(ev.epoch)
  /\ \E i \in ev.converted :
       /\ ~U32Ge(ev.at, sensorChangedAtMs[i])
       /\ sensorChangedAtEpoch[i] = ev.epoch - U32Div1000(U32Sub(ev.at, sensorChangedAtMs[i]))
       /\ sensorChangedAtEpoch[i] < ev.epoch

\* C12: between two stamps of a channel backfill assigns the channel's
\* epoch at most once, however often it runs while the clock is trusted:
\* once backfill has assigned it, no later backfill changes it until the
\* channel is stamped again.
C12_BackfillOncePerTransition ==
  [][/\ \A i \in Channels : backfillWrites'[i] <= 1
     /\ BackfillRan =>
          \A i \in Channels :
            backfillWrites[i] >= 1 => sensorChangedAtEpoch'[i] = sensorChangedAtEpoch[i]]_vars

\* Backfill ran again, the clock trusted, after it had converted a channel
\* that has not been stamped since, and assigned nothing.
C12_Witness ==
  /\ ev.op = "clock" /\ ev.backfill /\ isTimeSynced(ev.epoch)
  /\ ev.converted = {}
  /\ \E i \in Channels :
       /\ backfillWrites[i] = 1
       /\ sensorChangedAtEpoch[i] >= MIN_VALID_EPOCH
       /\ sensorChangedAtEpoch[i] < ev.epoch

\* C14: backfill called while the clock is untrusted changes no state;
\* called while it is trusted it changes only the epoch of channels that
\* are initialized, have changedAtUptimeMs # 0 and hold an epoch below
\* MIN_VALID_EPOCH; it never changes a channel's changedAtUptimeMs or
\* initialized flag, nor the snapshot.
C14_BackfillFrame ==
  [][BackfillRan =>
       /\ ~isTimeSynced(wallClock) =>
            UNCHANGED <<sensorVars, lastSensorPollMs, updateVars, clockVars, wifi>>
       /\ \A i \in Channels :
            sensorChangedAtEpoch'[i] # sensorChangedAtEpoch[i] =>
              /\ sensorInitialized[i]
              /\ sensorChangedAtMs[i] # U32Zero
              /\ sensorChangedAtEpoch[i] < MIN_VALID_EPOCH
       /\ UNCHANGED <<sensorChangedAtMs, sensorInitialized, snapshot>>]_vars

\* Backfill ran with the clock trusted and converted a channel, leaving as
\* it was the untrusted epoch of a channel stamped when millis() was 0.
C14_Witness ==
  /\ ev.op = "clock" /\ ev.backfill /\ isTimeSynced(ev.epoch)
  /\ ev.converted # {}
  /\ \E i \in Channels :
       /\ i \notin ev.converted
       /\ sensorInitialized[i]
       /\ sensorChangedAtMs[i] = U32Zero
       /\ sensorChangedAtEpoch[i] < MIN_VALID_EPOCH

\* The clock part of an iteration of loop().
ClockPart == pc = "clock" /\ pc' = "poll"

\* The 32-bit duration e is at least n ms, for n below 2^31.
AtLeastMs(e, n) == e[1] >= 2 ^ 15 \/ e[1] * Half + e[2] >= n

\* The interval that applies: short while untrusted, long once trusted.
Applicable(epoch) == IF epoch >= MIN_VALID_EPOCH THEN CLOCK_RESYNC_MS ELSE CLOCK_RETRY_MS

\* C15: in every iteration of loop() syncClock is called, recording the
\* uptime of the attempt, exactly when the time since the last attempt is
\* at least the applicable interval: CLOCK_RETRY_MS while the clock is
\* untrusted, CLOCK_RESYNC_MS once it is trusted.
C15_SyncWhenDue ==
  [][ClockPart =>
       /\ ev'.synced <=>
            AtLeastMs(U32Sub(millis, lastClockSyncMs), Applicable(wallClock))
       /\ lastClockSyncMs' = IF ev'.synced THEN millis ELSE lastClockSyncMs]_vars

\* C15 as amended: in every iteration of loop() in which WiFi is connected
\* syncClock is called exactly when the time since the last attempt is at
\* least the applicable interval; in an iteration in which WiFi is not
\* connected it is not called.
C15_SyncWhenDueAndConnected ==
  [][ClockPart =>
       /\ ev'.synced <=>
            (wifi /\ AtLeastMs(U32Sub(millis, lastClockSyncMs), Applicable(wallClock)))
       /\ lastClockSyncMs' = IF ev'.synced THEN millis ELSE lastClockSyncMs]_vars

\* An iteration, connected and with the clock trusted, called no sync
\* although more than the retry interval had passed since the last attempt.
C15_Witness ==
  /\ ev.op = "clock" /\ ev.connected /\ isTimeSynced(ev.epoch) /\ ~ev.synced
  /\ AtLeastMs(U32Sub(ev.at, lastClockSyncMs), CLOCK_RETRY_MS)

\* The day number of the civil date y-m-d.
DaysFromCivil(y, m, d) ==
  LET yy == IF m <= 2 THEN y - 1 ELSE y
      era == yy \div 400
      yoe == yy - era * 400
      doy == (153 * (IF m > 2 THEN m - 3 ELSE m + 9) + 2) \div 5 + d - 1
      doe == yoe * 365 + yoe \div 4 - yoe \div 100 + doy
  IN  era * 146097 + doe - 719468

\* The number that a decimal digit reads.
ValueOf ==
  "0" :> 0 @@ "1" :> 1 @@ "2" :> 2 @@ "3" :> 3 @@ "4" :> 4 @@ "5" :> 5 @@ "6" :> 6
    @@ "7" :> 7 @@ "8" :> 8 @@ "9" :> 9

\* The number that the digits of s from position k to position last read.
RECURSIVE ValueBetween(_, _, _)
ValueBetween(s, k, last) ==
  IF last < k THEN 0 ELSE 10 * ValueBetween(s, k, last - 1) + ValueOf[s[last]]

\* s reads "YYYY-MM-DD HH:MM:SS" and names the second t of the epoch.
ReadsAsEpoch(s, t) ==
  /\ Len(s) = 19
  /\ s[5] = "-" /\ s[8] = "-" /\ s[11] = SP /\ s[14] = ":" /\ s[17] = ":"
  /\ \A k \in (1 .. 19) \ {5, 8, 11, 14, 17} : s[k] \in DOMAIN ValueOf
  /\ ValueBetween(s, 6, 7) \in 1 .. 12
  /\ ValueBetween(s, 9, 10) \in 1 .. 31
  /\ ValueBetween(s, 12, 13) < 24
  /\ ValueBetween(s, 15, 16) < 60
  /\ ValueBetween(s, 18, 19) < 60
  /\ t = DaysFromCivil(ValueBetween(s, 1, 4), ValueBetween(s, 6, 7),
                       ValueBetween(s, 9, 10)) * 86400
           + ValueBetween(s, 12, 13) * 3600 + ValueBetween(s, 15, 16) * 60
           + ValueBetween(s, 18, 19)

\* s reads "t+<n>s" with n the whole seconds of the uptime ms.
ReadsAsUptime(s, ms) ==
  /\ Len(s) >= 3
  /\ s[1] = "t+" /\ s[Len(s)] = "s"
  /\ \A k \in 2 .. Len(s) - 1 : s[k] \in DOMAIN ValueOf
  /\ Len(s) = 3 \/ s[2] # "0"
  /\ ValueBetween(s, 2, Len(s) - 1) = U32Div1000(ms)

\* What the claim says of the formatted time s of channel i.
FormattedAsClaimed(s, i) ==
  IF wallClock >= MIN_VALID_EPOCH /\ sensorChangedAtEpoch[i] >= MIN_VALID_EPOCH
    THEN ReadsAsEpoch(s, sensorChangedAtEpoch[i]) /\ ~ReadsAsUptime(s, sensorChangedAtMs[i])
    ELSE ReadsAsUptime(s, sensorChangedAtMs[i]) /\ ~ReadsAsEpoch(s, sensorChangedAtEpoch[i])

\* C17: for every channel that has been sampled, sensorChangeTimeToStr is
\* the epoch-formatted string iff the clock is trusted and the channel's
\* epoch is at or above MIN_VALID_EPOCH, and otherwise the string
\* "t+<changedAtUptimeMs / 1000>s".
C17_ChangeTimeString ==
  \A i \in Channels :
    sensorInitialized[i] => FormattedAsClaimed(sensorChangeTimeToStr(i, wallClock), i)

\* What the sketch does instead: the string is as stated for every channel
\* whose changedAtUptimeMs is not 0, and "-" for a channel whose
\* changedAtUptimeMs is 0, sampled or not.
ChangeTimeStringIfStamped ==
  \A i \in Channels :
    IF sensorChangedAtMs[i] # U32Zero
      THEN FormattedAsClaimed(sensorChangeTimeToStr(i, wallClock), i)
      ELSE sensorChangeTimeToStr(i, wallClock) = <<"-">>

\* The clock trusted, one channel showing its converted epoch, another,
\* not yet converted, its uptime, and a third, stamped when millis() was 0,
\* showing "-".
ChangeTimeStringCases ==
  /\ isTimeSynced(wallClock)
  /\ \E i, j, k \in Channels :
       /\ sensorChangedAtEpoch[i] >= MIN_VALID_EPOCH
       /\ ReadsAsEpoch(sensorChangeTimeToStr(i, wallClock), sensorChangedAtEpoch[i])
       /\ sensorChangedAtMs[j] # U32Zero /\ sensorChangedAtEpoch[j] < MIN_VALID_EPOCH
       /\ ReadsAsUptime(sensorChangeTimeToStr(j, wallClock), sensorChangedAtMs[j])
       /\ sensorInitialized[k] /\ sensorChangedAtMs[k] = U32Zero
       /\ sensorChangeTimeToStr(k, wallClock) = <<"-">>

\* The poll step that ends an iteration of loop() whose clock step found
\* the clock trusted.
EndsTrustedIteration ==
  pc = "poll" /\ pc' = "serve" /\ ev.op = "clock" /\ isTimeSynced(ev.epoch)

\* C13: at the end of any iteration of loop() in which the clock is
\* trusted, every initialized channel holds an epoch at or above
\* MIN_VALID_EPOCH.
C13_TrustedLoopConverts ==
  [][EndsTrustedIteration =>
       \A i \in Channels :
         sensorInitialized'[i] => sensorChangedAtEpoch'[i] >= MIN_VALID_EPOCH]_vars

\* C13 as amended: at the end of any iteration of loop() in which WiFi is
\* connected and the clock is trusted, every initialized channel whose
\* changedAtUptimeMs is not 0 holds an epoch at or above MIN_VALID_EPOCH.
C13_ConnectedTrustedLoopConverts ==
  [][(EndsTrustedIteration /\ ev.connected) =>
       \A i \in Channels :
         (sensorInitialized'[i] /\ sensorChangedAtMs'[i] # U32Zero) =>
           sensorChangedAtEpoch'[i] >= MIN_VALID_EPOCH]_vars

\* An iteration ended, connected and with the clock trusted, in which
\* backfill converted a channel stamped before the clock was trusted.
C13_Witness ==
  /\ ev.op = "poll" /\ ev.connected /\ isTimeSynced(ev.epoch)
  /\ \A i \in Channels : sensorInitialized[i] /\ sensorChangedAtEpoch[i] >= MIN_VALID_EPOCH
  /\ \E i \in Channels :
       /\ backfillWrites[i] = 1
       /\ sensorChangedAtMs[i] # ev.at
       /\ sensorChangedAtEpoch[i] <= ev.epoch

(***************************************************************************)
(* parseManifest on its own: the body is any sequence of at most MaxLines  *)
(* of the lines of ManifestLines, with or without a final newline.         *)
(***************************************************************************)
InitParse ==
  /\ InitGlobals
  /\ pc = "parse"
  /\ millis = U32Zero
  /\ wallClock = 0
  /\ wifi = FALSE
  /\ ticks = 0
  /\ ev = NoEvent
  /\ manifest \in SeqsUpTo(ManifestLines, MaxLines)
  /\ \E trailing \in BOOLEAN : body = RenderBody(manifest, trailing)
  /\ parsed = NotParsed
  /\ debounce = NoDebounce
  /\ timing = NoTiming
  /\ transport = NoTransport

Parse ==
  /\ pc = "parse"
  /\ ~parsed.done
  /\ \E r \in {parseManifest(body)} :
       parsed' = [out |-> r.out, ok |-> r.ok, error |-> r.error, done |-> TRUE]
  /\ UNCHANGED <<pc, wifi, clockVars, sensorVars, timerVars, updateVars, ev, manifest, body,
                 probeVars>>

NextParse == Parse

SpecParse == InitParse /\ [][NextParse]_vars

(***************************************************************************)
(* Properties of parseManifest, checked under SpecParse.                   *)
(***************************************************************************)
\* The last line of items with this key, if there is one.
LastWith(items, key) ==
  LET at == {i \in 1 .. Len(items) : items[i].key = key}
  IN  IF at = {} THEN 0 ELSE CHOOSE i \in at : \A j \in at : j <= i

\* What the manifest gives for version_code, version_name, firmware_url.
GivenCode(items) ==
  IF LastWith(items, "version_code") = 0 THEN 0
  ELSE items[LastWith(items, "version_code")].num

GivenName(items) ==
  IF LastWith(items, "version_name") = 0 THEN << >>
  ELSE items[LastWith(items, "version_name")].val

GivenUrl(items) ==
  IF LastWith(items, "firmware_url") = 0 THEN << >>
  ELSE items[LastWith(items, "firmware_url")].val

\* C10: parseManifest succeeds iff the version_code of the manifest is
\* greater than 0 and its firmware_url is not empty; on success versionName
\* is the version_name given, or the decimal string of versionCode when
\* none or an empty one is given; on failure the reason is not empty and
\* names the version code when the code is not positive, else the URL.
C10_ParseManifest ==
  parsed.done =>
    /\ parsed.ok <=> (GivenCode(manifest) > 0 /\ GivenUrl(manifest) # << >>)
    /\ parsed.ok =>
         /\ parsed.out.versionCode = GivenCode(manifest)
         /\ parsed.out.firmwareUrl = GivenUrl(manifest)
         /\ IF GivenName(manifest) # << >>
              THEN parsed.out.versionName = GivenName(manifest)
              ELSE IsDecimalOf(parsed.out.versionName, parsed.out.versionCode)
    /\ ~parsed.ok =>
         /\ Len(parsed.error) > 0
         /\ parsed.error = IF GivenCode(manifest) <= 0
                             THEN <<"manifest missing valid version_code">>
                             ELSE <<"manifest missing firmware_url">>

\* version_code=42 and a firmware_url with no version_name: the name is "42".
C10_Witness ==
  /\ parsed.done /\ parsed.ok
  /\ LastWith(manifest, "version_name") = 0
  /\ parsed.out.versionCode = 42
  /\ parsed.out.versionName = <<"4", "2">>
  /\ parsed.out.firmwareUrl = URL_B

\* A line of white space only, and a line whose first character that is
\* not white space is '#'.
IsBlankLine(text) == \A k \in 1 .. Len(text) : IsSpace(text[k])

IsCommentLine(text) ==
  \E k \in 1 .. Len(text) : text[k] = "#" /\ \A j \in 1 .. k - 1 : IsSpace(text[j])

\* The lines the parser is said to ignore: blank lines, comments, and
\* key=value lines whose key is not one of the three recognized.
Ignorable(l) ==
  IF l.key = "none" THEN IsBlankLine(l.raw) \/ IsCommentLine(l.raw)
  ELSE l.key = "other"

\* The manifest without its ignorable lines, every recognized key in lower
\* case and no white space around keys and values.
RECURSIVE Canonical(_)
Canonical(items) ==
  IF items = << >> THEN << >>
  ELSE LET l == Head(items)
       IN  IF Ignorable(l) THEN Canonical(Tail(items))
           ELSE IF l.key = "none" THEN <<l>> \o Canonical(Tail(items))
           ELSE <<Item(l.key, l.val, l.num, "plain")>> \o Canonical(Tail(items))

EndsWithNewline(text) == Len(text) > 0 /\ text[Len(text)] = NL

\* C20: the result of parseManifest is unchanged by inserting blank lines,
\* lines whose first non-whitespace character is '#', or lines with
\* unrecognized keys anywhere in the body, by changing the letter case of a
\* recognized key, and by adding whitespace around a key or a value: the
\* body parses to what the body without those lines, spellings and
\* spaces parses to.
C20_ParseIgnoresNoise ==
  parsed.done =>
    [out |-> parsed.out, ok |-> parsed.ok, error |-> parsed.error]
      = parseManifest(RenderBody(Canonical(manifest), EndsWithNewline(body)))

\* A padded version_code line, a comment that looks like a firmware_url
\* line, and a firmware_url line with its key in upper case parse to
\* version 7 at that URL.
C20_Witness ==
  /\ parsed.done
  /\ manifest = << Item("version_code", <<"7">>, 7, "padded"),
                   RawLine(<<SP, "#", "f", "i", "r", "m", "w", "a", "r", "e", "_", "u", "r", "l", "=", "h", "t", "t", "p", ":", "/", "/", "h", "/", "c">>),
                   Item("firmware_url", URL_A, 0, "upper") >>
  /\ Canonical(manifest) = << Item("version_code", <<"7">>, 7, "plain"),
                              Item("firmware_url", URL_A, 0, "plain") >>
  /\ parsed.ok
  /\ parsed.out.versionCode = 7
  /\ parsed.out.firmwareUrl = URL_A

(***************************************************************************)
(* readStableSensorWet on its own: any five reads of a pin, on a channel   *)
(* built with its SENSOR_INVERTED entry false or true.                     *)
(***************************************************************************)
\* The sketch before setup(), at position p.
SketchAtRest(p) ==
  /\ InitGlobals
  /\ pc = p
  /\ millis = U32Zero
  /\ wallClock = 0
  /\ wifi = FALSE
  /\ ticks = 0
  /\ ev = NoEvent
  /\ manifest = << >>
  /\ body = << >>
  /\ parsed = NotParsed

PinReads == [1 .. SAMPLE_COUNT -> {LOW, HIGH}]

InitDebounce ==
  /\ SketchAtRest("debounce")
  /\ \E s \in PinReads, b \in BOOLEAN :
       debounce = [NoDebounce EXCEPT !.samples = s, !.inverted = b]
  /\ timing = NoTiming
  /\ transport = NoTransport

Debounce ==
  /\ pc = "debounce"
  /\ ~debounce.done
  /\ debounce' = [debounce EXCEPT !.wet = StableWet(debounce.samples, debounce.inverted),
                                  !.done = TRUE]
  /\ UNCHANGED <<pc, wifi, clockVars, sensorVars, timerVars, updateVars, ev, parseVars,
                 timing, transport>>

NextDebounce == Debounce

SpecDebounce == InitDebounce /\ [][NextDebounce]_vars

\* The number of asserted reads among the five.
Asserted(s) == Cardinality({k \in DOMAIN s : s[k] = HIGH})

\* C11: for any five raw samples readStableSensorWet returns wet iff at
\* least 3 of them are HIGH, whatever their order, when the channel is not
\* inverted, and the negation of that when the channel is inverted.
C11_MajorityVote ==
  debounce.done =>
    /\ ~debounce.inverted => (debounce.wet <=> Asserted(debounce.samples) >= 3)
    /\ debounce.inverted => (debounce.wet <=> ~(Asserted(debounce.samples) >= 3))

\* Exactly three asserted reads, not adjacent, read as wet on a channel
\* that is not inverted.
C11_Witness ==
  /\ debounce.done /\ ~debounce.inverted /\ debounce.wet
  /\ debounce.samples = <<HIGH, LOW, HIGH, LOW, HIGH>>

(***************************************************************************)
(* intervalElapsed on its own: a timestamp lastMs, the time that has       *)
(* really passed since, and the value millis() has then, wrapped or not.   *)
(***************************************************************************)
TimingStarts ==
  { U32Zero, U32Of(1000), <<2 ^ 15, 0>>, U32Sub(U32Zero, U32Of(SENSOR_POLL_MS)),
    U32Sub(U32Zero, U32Of(1)) }

TimingElapsed ==
  { U32Zero, U32Of(1), U32Of(SENSOR_POLL_MS - 1), U32Of(SENSOR_POLL_MS),
    U32Of(SENSOR_POLL_MS + 1), U32Of(CLOCK_RETRY_MS - 1), U32Of(CLOCK_RETRY_MS),
    U32Of(CLOCK_RESYNC_MS - 1), U32Of(CLOCK_RESYNC_MS), <<2 ^ 15, 0>>,
    U32Sub(U32Zero, U32Of(1)) }

TimingIntervals == {SENSOR_POLL_MS, CLOCK_RETRY_MS, CLOCK_RESYNC_MS}

InitInterval ==
  /\ SketchAtRest("interval")
  /\ \E s \in TimingStarts, e \in TimingElapsed, n \in TimingIntervals :
       timing = [NoTiming EXCEPT !.now = U32Add(s, e), !.lastMs = s, !.intervalMs = n,
                                 !.elapsed = e]
  /\ debounce = NoDebounce
  /\ transport = NoTransport

Interval ==
  /\ pc = "interval"
  /\ ~timing.done
  /\ timing' = [timing EXCEPT
                  !.result = intervalElapsed(timing.now, timing.lastMs, timing.intervalMs),
                  !.done = TRUE]
  /\ UNCHANGED <<pc, wifi, clockVars, sensorVars, timerVars, updateVars, ev, parseVars,
                 debounce, transport>>

NextInterval == Interval

SpecInterval == InitInterval /\ [][NextInterval]_vars

\* millis() has passed its maximum between lastMs and now.
Wrapped(lastMs, now) == now[1] < lastMs[1] \/ (now[1] = lastMs[1] /\ now[2] < lastMs[2])

\* C16: intervalElapsed(lastMs, intervalMs) is true iff (now - lastMs) mod
\* 2^32 >= intervalMs: for any elapsed time below 2^32 ms it answers
\* whether at least intervalMs have elapsed, also when millis() has wrapped
\* from its maximum back to 0 between lastMs and now.
C16_IntervalAcrossWrap ==
  timing.done =>
    /\ timing.result <=> AtLeastMs(U32Sub(timing.now, timing.lastMs), timing.intervalMs)
    /\ timing.result <=> AtLeastMs(timing.elapsed, timing.intervalMs)

\* The poll interval has just elapsed, millis() having wrapped meanwhile.
C16_Witness ==
  /\ timing.done /\ timing.result
  /\ Wrapped(timing.lastMs, timing.now)
  /\ timing.elapsed = U32Of(SENSOR_POLL_MS)
  /\ timing.intervalMs = SENSOR_POLL_MS

(***************************************************************************)
(* fetchTextFromUrl and fetchManifest on their own: one answer of the      *)
(* transport, and what the two functions return for it.                    *)
(***************************************************************************)
\* What http.GET() returns: the status of the response, or a negative
\* error of the client when no response came.
GetCodes == {HTTP_CODE_OK, 201, 204, 206, 299, 301, 304, 404, 500, 0 - 1, 0 - 11}

FetchBodies == {RenderBody(m, TRUE) : m \in CheckManifests} \cup {<< >>}

FetchResponses ==
  {Response(TRUE, code, text) : code \in GetCodes, text \in FetchBodies}
    \cup {Response(FALSE, 0, << >>)}

InitFetch ==
  /\ SketchAtRest("fetch")
  /\ \E resp \in FetchResponses : transport = [NoTransport EXCEPT !.resp = resp]
  /\ debounce = NoDebounce
  /\ timing = NoTiming

Fetch ==
  /\ pc = "fetch"
  /\ ~transport.done
  /\ transport' = [transport EXCEPT !.text = fetchTextFromUrl(transport.resp),
                                    !.fetched = fetchManifest(transport.resp),
                                    !.done = TRUE]
  /\ UNCHANGED <<pc, wifi, clockVars, sensorVars, timerVars, updateVars, ev, parseVars,
                 debounce, timing>>

NextFetch == Fetch

SpecFetch == InitFetch /\ [][NextFetch]_vars

\* The failure reason error reads "HTTP <code>", code written in decimal
\* with its sign.
ReasonCarries(error, code) ==
  /\ Len(error) >= 2
  /\ error[1] = "HTTP "
  /\ IF code < 0
       THEN /\ Len(error) >= 3
            /\ error[2] = "-"
            /\ IsDecimalOf(SubSeq(error, 3, Len(error)), 0 - code)
       ELSE IsDecimalOf(Tail(error), code)

\* For an answer whose status is in success, fetchTextFromUrl returns the
\* body and fetchManifest returns what parseManifest makes of it; for any
\* other answer both report a failure whose reason carries the status.
FetchSplitsAt(success) ==
  (transport.done /\ transport.resp.begin) =>
    IF transport.resp.code \in success
      THEN /\ transport.text.ok
           /\ transport.text.body = transport.resp.body
           /\ transport.fetched = parseManifest(transport.resp.body)
      ELSE /\ ~transport.text.ok
           /\ ReasonCarries(transport.text.error, transport.resp.code)
           /\ ~transport.fetched.ok
           /\ transport.fetched.error = transport.text.error

\* C19: fetchTextFromUrl reports a fetch failure whose reason carries the
\* numeric HTTP status for every non-2xx response, and for every 2xx
\* response returns the body, which fetchManifest hands to parseManifest.
C19_FetchBy2xx == FetchSplitsAt(200 .. 299)

\* C19 as amended: the failure with the numeric status is reported for
\* every response whose status is not 200, and the body is returned, and
\* handed to parseManifest, for every response whose status is 200.
C19_FetchBy200 == FetchSplitsAt({HTTP_CODE_OK})

\* A response with status 204 that carries a well-formed manifest is
\* reported as the failure "HTTP 204".
C19_Witness ==
  /\ transport.done
  /\ transport.resp.begin
  /\ transport.resp.code = 204
  /\ parseManifest(transport.resp.body).ok
  /\ ~transport.text.ok
  /\ transport.text.error = <<"HTTP ", "2", "0", "4">>
  /\ ~transport.fetched.ok

====
